---- MODULE Spec2Model ----
(***************************************************************************)
(* Graph-processing core of the neuro-symbolic pipeline:                   *)
(*   apply_mutations, parse_validation_report   (src/src/testing_utils.py) *)
(*   get_semantic_hash, validate_shacl_syntax,                             *)
(*   resolve_node_path                          (src/src/graph_utils.py)   *)
(* Every function is a synchronous call; each gets its own specification   *)
(* (SpecMutate, SpecValidate, SpecResolve, SpecReport, SpecHash) over the  *)
(* variables of its call frame, the other frames staying idle.             *)
(***************************************************************************)
EXTENDS Integers, Sequences, FiniteSets, TLC

VARIABLES
    \* ---- apply_mutations(base_graph, actions) ----
    heap,            \* Graph objects: reference -> [triples, ns]
    base_graph,      \* reference held by the parameter base_graph
    base_in,         \* the content of the base graph when the call was made
    actions,         \* the parameter actions (a list of action dicts)
    new_graph,       \* reference held by the local new_graph
    m_i,             \* number of list elements the for loop has consumed
    m_trace,         \* content of new_graph after the clone and after each action
    m_pc,            \* "call" | "loop" | "returned" | "raised"
    m_error,         \* message of the ValueError raised, or NoError
    \* ---- validate_shacl_syntax(shacl_ttl_string) ----
    shacl_ttl_string, \* the parameter: [malformed, triples, prefixes]
    v_graph,         \* triples of the local graph
    namespaces,      \* the local namespaces (prefixes bound in graph)
    results,         \* rows of graph.query(QUERY_FINDER) not yet iterated
    v_checked,       \* rows the for loop has iterated, in order
    constraint_node, \* the local constraint_node of the last row
    shape_name,      \* the local shape_name of the last row
    collected_errors,\* the local list collected_errors
    v_result,        \* the tuple returned, or NoResult
    v_pc,            \* "call" | "parsed" | "loop" | "returned"
    \* ---- resolve_node_path(citizen_graph, root_uri, path_list, datatype) ----
    citizen_graph,   \* the parameter: a set of triples
    root_uri,        \* the parameter
    path_list,       \* the parameter: a list of predicate names
    datatype,        \* the parameter: "URI" or anything else
    traversal_parts, \* the parts the for loop has not visited yet
    current_nodes,   \* the local current_nodes
    r_result,        \* the set returned, or NoResult
    r_pc,            \* "call" | "loop" | "exit" | "returned"
    \* ---- parse_validation_report(conforms, results_graph, results_text, shacl_graph) ----
    conforms,        \* the parameter
    results_graph,   \* the parameter: a set of triples
    results_text,    \* the parameter
    shacl_graph,     \* the parameter: a set of triples
    result_nodes,    \* validation results the for loop has not visited yet
    rep_read,        \* what each visited result gave: [source_shape, shape_name, message]
    failed_shapes,   \* the local set failed_shapes, in insertion order
    messages,        \* the local list messages
    summary,         \* the dict returned, or NoResult
    rep_pc,          \* "call" | "loop" | "returned"
    \* ---- get_semantic_hash(rdf_text) ----
    h_G,             \* the graph G whose serializations are hashed
    h_R,             \* the renaming R of G's blank nodes
    rdf_text,        \* the parameter: [malformed, statements]
    h_graph,         \* triples of the local graph
    h_result,        \* the string returned, or NoResult
    h_digests,       \* [rdf_text, digest] of the calls that returned, in order
    h_pc,            \* "idle" | "call" | "parsed" | "returned" | "raised"
    \* ---- str(x).split("#")[-1].split("/")[-1], in both functions ----
    l_iri,           \* str(x): the text of a named node
    l_validate,      \* shape_name as validate_shacl_syntax computes it
    l_report,        \* shape_name as parse_validation_report computes it
    l_done,          \* which of the two have computed it
    \* ---- with_retries(func, *args, base_delay) ----
    base_delay,      \* the parameter
    overloads,       \* the local overloads
    exhaustions,     \* the local exhaustions
    w_e,             \* str(e) of the exception being handled
    wait,            \* seconds slept before the last retry
    w_failures,      \* str(e) of every failure of func so far, in order
    w_raised,        \* what the call raised, or NothingRaised
    w_pc             \* "idle" | "try" | "except" | "returned" | "raised"

valVars == <<shacl_ttl_string, v_graph, namespaces, results, v_checked,
             constraint_node, shape_name, collected_errors, v_result, v_pc>>

resVars == <<citizen_graph, root_uri, path_list, datatype, traversal_parts,
             current_nodes, r_result, r_pc>>

repVars == <<conforms, results_graph, results_text, shacl_graph, result_nodes,
             rep_read, failed_shapes, messages, summary, rep_pc>>

mutVars == <<heap, base_graph, base_in, actions, new_graph, m_i, m_trace, m_pc, m_error>>

hashVars == <<h_G, h_R, rdf_text, h_graph, h_result, h_digests, h_pc>>

nameVars == <<l_iri, l_validate, l_report, l_done>>

retryVars == <<base_delay, overloads, exhaustions, w_e, wait, w_failures, w_raised, w_pc>>

vars == <<mutVars, valVars, resVars, repVars, hashVars, nameVars, retryVars>>

\* One call runs at a time: a step of one function leaves the frames of the
\* others alone.
OnlyMutate   == UNCHANGED <<valVars, resVars, repVars, hashVars, nameVars, retryVars>>
OnlyValidate == UNCHANGED <<mutVars, resVars, repVars, hashVars, nameVars, retryVars>>
OnlyResolve  == UNCHANGED <<mutVars, valVars, repVars, hashVars, nameVars, retryVars>>
OnlyReport   == UNCHANGED <<mutVars, valVars, resVars, hashVars, nameVars, retryVars>>
OnlyHash     == UNCHANGED <<mutVars, valVars, resVars, repVars, nameVars, retryVars>>
OnlyName     == UNCHANGED <<mutVars, valVars, resVars, repVars, hashVars, retryVars>>
OnlyRetry    == UNCHANGED <<mutVars, valVars, resVars, repVars, hashVars, nameVars>>

(***************************************************************************)
(* Bounds of the model.                                                    *)
(***************************************************************************)
MaxActions == 2        \* longest action list
MaxBinds   == 3        \* most @prefix declarations in the base graph's file
MaxShapeTriples == 4   \* most triples in a shapes graph
MaxCitizenTriples == 3 \* most triples in a citizen graph
MaxPath    == 3        \* longest path_list
MaxReportTriples == 6  \* most triples in a results graph
MaxHashTriples == 2    \* most triples in a hashed graph
MaxIri     == 5        \* longest IRI text
MaxOverloads == 3      \* most 'overloaded' failures of func in one call

(***************************************************************************)
(* Python lists and strings (strings are sequences of characters).         *)
(***************************************************************************)
Range(f) == {f[i] : i \in DOMAIN f}

\* All orders in which a set can be iterated.
Orders(S) == {q \in [1..Cardinality(S) -> S] : Range(q) = S}

RECURSIVE SeqsUpTo(_, _)
SeqsUpTo(S, n) ==
    IF n = 0 THEN {<<>>}
    ELSE LET shorter == SeqsUpTo(S, n - 1)
         IN  shorter \cup {Append(q, x) : q \in {r \in shorter : Len(r) = n - 1}, x \in S}

\* str.split(sep): the pieces between the non-overlapping occurrences of sep,
\* found from the left.
RECURSIVE Split(_, _)
Split(str, sep) ==
    LET n    == Len(sep)
        hits == {i \in 1..(Len(str) - n + 1) : SubSeq(str, i, i + n - 1) = sep}
    IN  IF hits = {} THEN <<str>>
        ELSE LET i == CHOOSE h \in hits : \A g \in hits : h <= g
             IN  <<SubSeq(str, 1, i - 1)>> \o Split(SubSeq(str, i + n, Len(str)), sep)

\* The characters the model's strings use, in code point order.
CodePointOrder == <<" ", "#", "'", "(", ")", ",", "/", "0", "1", "2", "3", "4", "5", "6", "7", "8", "9", ":", ";", "A", "B", "C", "D", "E", "K", "O", "U", "_", "a", "b", "c", "d", "e", "f", "g", "h", "i", "k", "l", "m", "n", "o", "p", "r", "s", "t", "u", "w", "x", "y", "|">>
Ord(c) == CHOOSE k \in DOMAIN CodePointOrder : CodePointOrder[k] = c

\* a < b for strings
RECURSIVE StrLess(_, _)
StrLess(a, b) ==
    IF b = <<>> THEN FALSE
    ELSE IF a = <<>> THEN TRUE
    ELSE IF Head(a) # Head(b) THEN Ord(Head(a)) < Ord(Head(b))
    ELSE StrLess(Tail(a), Tail(b))

\* sorted(list) for a list of strings
RECURSIVE Sorted(_)
Sorted(list) ==
    IF list = <<>> THEN <<>>
    ELSE LET k == CHOOSE i \in DOMAIN list : \A j \in DOMAIN list : ~StrLess(list[j], list[i])
         IN  <<list[k]>> \o Sorted(SubSeq(list, 1, k - 1) \o SubSeq(list, k + 1, Len(list)))

\* x[-1] and x[0] of a list
Last(list)  == list[Len(list)]
First(list) == list[1]

\* sep.join(list)
RECURSIVE Join(_, _)
Join(list, sep) ==
    IF list = <<>> THEN <<>>
    ELSE IF Len(list) = 1 THEN list[1]
    ELSE list[1] \o sep \o Join(Tail(list), sep)

\* str.strip() for the blank
RECURSIVE Strip(_)
Strip(str) ==
    IF str = <<>> THEN str
    ELSE IF Head(str) = " " THEN Strip(Tail(str))
    ELSE IF Last(str) = " " THEN Strip(SubSeq(str, 1, Len(str) - 1))
    ELSE str

\* sub in str
Contains(str, sub) ==
    \E i \in 1..(Len(str) - Len(sub) + 1) : SubSeq(str, i, i + Len(sub) - 1) = sub

(***************************************************************************)
(* rdflib Graph: a set of triples and an insertion-ordered prefix table.   *)
(***************************************************************************)
NS_XSD == "http://www.w3.org/2001/XMLSchema#"
NS_EX  == "http://example.org/"

\* Bindings a new Graph() starts with (rdflib binds its core prefixes).
DefaultBindings == << <<"xsd", NS_XSD>> >>

\* The table as a mapping (dict equality ignores insertion order).
Bindings(tbl)      == Range(tbl)
NamespaceOf(tbl, p) == LET k == CHOOSE k \in DOMAIN tbl : tbl[k][1] = p IN tbl[k][2]
PrefixBound(tbl, p) == \E k \in DOMAIN tbl : tbl[k][1] = p
PrefixOf(tbl, n)   == LET k == CHOOSE k \in DOMAIN tbl : tbl[k][2] = n IN tbl[k][1]
NamespaceBound(tbl, n) == \E k \in DOMAIN tbl : tbl[k][2] = n

\* Memory store bind(prefix, namespace, override=True): drops the entry of the
\* prefix the namespace had and of the namespace the prefix had, then sets both.
StoreBind(tbl, p, n) ==
    LET kept == SelectSeq(tbl, LAMBDA e : e[2] # n \/ e[1] = p)
    IN  IF PrefixBound(kept, p)
        THEN [k \in DOMAIN kept |-> IF kept[k][1] = p THEN <<p, n>> ELSE kept[k]]
        ELSE Append(kept, <<p, n>>)

\* "%s%s" % (prefix, num): the first numbered prefix that is free or already
\* names the namespace.
RECURSIVE NumberedPrefix(_, _, _, _)
NumberedPrefix(tbl, p, n, num) ==
    LET cand == p \o ToString(num)
    IN  IF ~PrefixBound(tbl, cand) \/ NamespaceOf(tbl, cand) = n
        THEN cand
        ELSE NumberedPrefix(tbl, p, n, num + 1)

\* Graph.bind(prefix, namespace) with the defaults override=True, replace=False.
Bind(tbl, p, n) ==
    IF PrefixBound(tbl, p) /\ NamespaceOf(tbl, p) # n
    THEN LET np == NumberedPrefix(tbl, p, n, 1)
         IN  IF PrefixBound(tbl, np) THEN tbl ELSE StoreBind(tbl, np, n)
    ELSE IF ~NamespaceBound(tbl, n) THEN StoreBind(tbl, p, n)
    ELSE IF PrefixOf(tbl, n) = p THEN tbl
    ELSE StoreBind(tbl, p, n)

\* for ns in g.namespaces(): target.bind(ns[0], ns[1])  -- in insertion order
RECURSIVE BindAll(_, _)
BindAll(tbl, pairs) ==
    IF pairs = <<>> THEN tbl
    ELSE BindAll(Bind(tbl, Head(pairs)[1], Head(pairs)[2]), Tail(pairs))

\* A slip: removing every triple of the subject, whatever its predicate.
RemoveSubject(triples, s, p) == {t \in triples : t[1] # s}

\* Graph.remove((s, p, None)) and Graph.add((s, p, o)) on a triple set.
Remove(triples, s, p) == {t \in triples : ~(t[1] = s /\ t[2] = p)}
Add(triples, t)       == triples \cup {t}

(***************************************************************************)
(* Inputs of apply_mutations.                                              *)
(***************************************************************************)
Subjects      == {"alice", "bob"}
Predicates    == {"age", "name"}
Objects       == {"30", "31"}
BaseTriples   == {<<"alice", "age", "30">>, <<"alice", "age", "31">>,
                   <<"alice", "name", "30">>, <<"bob", "age", "30">>}
PatchTriples  == {<<"alice", "age", "30">>, <<"alice", "age", "31">>,
                   <<"alice", "name", "31">>}

\* Prefix tables a parsed base graph can hold: Graph() followed by one bind
\* per prefix the file declares (the parser keeps its declarations in a dict
\* and binds them, in order, when the parse ends).
FilePrefixes  == {"ex", "xsd", "xsd1"} \X {NS_XSD, NS_EX}
FileBindings  ==
    {q \in SeqsUpTo(FilePrefixes, MaxBinds) :
        \A i, j \in DOMAIN q : i # j => q[i][1] # q[j][1]}
BaseTables    == {BindAll(DefaultBindings, q) : q \in FileBindings}

\* What the Turtle parser says of a text it rejects.
ParserMessages == {"at line 5: expected '.'", "at line 6: bad predicate"}

\* The text of a snippet: the statements it makes, or text no parser accepts
\* (with the message the parser gives for it).
SnippetTexts ==
    {[malformed |-> FALSE, statements |-> S, error |-> "None"] :
        S \in (SUBSET PatchTriples) \ {{}}}
    \cup {[malformed |-> TRUE, statements |-> {}, error |-> e] : e \in ParserMessages}

NoTurtle    == [malformed |-> FALSE, statements |-> {}, error |-> "None"]
ActionDicts ==
    {[type |-> "patch_node", turtle |-> x] : x \in SnippetTexts}
    \cup {[type |-> "no_action", turtle |-> NoTurtle],
          [type |-> "delete_node", turtle |-> NoTurtle]}

NoGraph == "None"
NoError == "None"
NoNode  == [kind |-> "None", value |-> <<>>]
NoResult == "None"

\* Graph(): a new object on the heap.
NewGraphObject == "graph2"

EmptyGraph == [triples |-> {}, ns |-> DefaultBindings]

InitMutate ==
    /\ base_graph = "graph1"
    /\ \E T \in SUBSET BaseTriples, tbl \in BaseTables :
          /\ heap = [r \in {"graph1"} |-> [triples |-> T, ns |-> tbl]]
          /\ base_in = [triples |-> T, ns |-> tbl]
    /\ actions \in SeqsUpTo(ActionDicts, MaxActions)
    /\ new_graph = NoGraph
    /\ m_i = 0
    /\ m_trace = <<>>
    /\ m_pc = "call"
    /\ m_error = NoError

IdleMutate ==
    /\ base_graph = NoGraph
    /\ heap = <<>>
    /\ base_in = EmptyGraph
    /\ actions = <<>>
    /\ new_graph = NoGraph
    /\ m_i = 0
    /\ m_trace = <<>>
    /\ m_pc = "idle"
    /\ m_error = NoError

\* for triple in base_graph: new_graph.add(triple)
CloneTriples(src) == src

\* Lines 87-88: for ns in base_graph.namespaces(): new_graph.bind(ns[0], ns[1])
CopyBindings(tbl, pairs) == BindAll(tbl, pairs)

\* Lines 85-90: new_graph = Graph(); copy the bindings, then the triples.
\* All writes go through the reference new_graph.
MutClone ==
    /\ m_pc = "call"
    /\ LET ref  == NewGraphObject
           h1   == [r \in DOMAIN heap \cup {ref} |->
                       IF r = ref THEN EmptyGraph ELSE heap[r]]
           h2   == [h1 EXCEPT ![ref].ns = CopyBindings(h1[ref].ns, h1[base_graph].ns)]
           h3   == [h2 EXCEPT ![ref].triples =
                       h2[ref].triples \cup CloneTriples(h2[base_graph].triples)]
       IN  /\ heap' = h3
           /\ new_graph' = ref
           /\ m_trace' = <<h3[ref].triples>>
    /\ m_pc' = "loop"
    /\ UNCHANGED <<base_graph, base_in, actions, m_i, m_error>>
    /\ OnlyMutate

\* Lines 108-110, the body of the loop over snippet_graph.
PatchTriple(triples, t) == Add(Remove(triples, t[1], t[2]), t)

\* Lines 106-110: the loop over snippet_graph, in the order `order`.
RECURSIVE PatchNode(_, _)
PatchNode(triples, order) ==
    IF order = <<>> THEN triples
    ELSE PatchNode(PatchTriple(triples, Head(order)), Tail(order))

CurrentAction == actions[m_i + 1]

\* Lines 94-110 for a snippet that parses: snippet_graph is iterated in an
\* order the store decides.
MutPatchNode ==
    /\ m_pc = "loop"
    /\ m_i < Len(actions)
    /\ CurrentAction.type = "patch_node"
    /\ ~CurrentAction.turtle.malformed
    /\ \E order \in Orders(CurrentAction.turtle.statements) :
          heap' = [heap EXCEPT ![new_graph].triples = PatchNode(@, order)]
    /\ m_i' = m_i + 1
    /\ m_trace' = Append(m_trace, heap'[new_graph].triples)
    /\ UNCHANGED <<base_graph, base_in, actions, new_graph, m_pc, m_error>>
    /\ OnlyMutate

\* Line 103: f"Invalid Turtle in patch: {e}"
InvalidTurtle(e) == <<"Invalid Turtle in patch: ", e>>

\* A slip: undoing the earlier actions before the error leaves the call.
MutPatchMalformedUndoes ==
    /\ m_pc = "loop"
    /\ m_i < Len(actions)
    /\ CurrentAction.type = "patch_node"
    /\ CurrentAction.turtle.malformed
    /\ m_pc' = "raised"
    /\ m_error' = InvalidTurtle(CurrentAction.turtle.error)
    /\ heap' = [heap EXCEPT ![new_graph].triples = m_trace[1]]
    /\ UNCHANGED <<base_graph, base_in, actions, new_graph, m_i, m_trace>>
    /\ OnlyMutate

\* Lines 100-103: the snippet does not parse; ValueError leaves the call.
MutPatchMalformed ==
    /\ m_pc = "loop"
    /\ m_i < Len(actions)
    /\ CurrentAction.type = "patch_node"
    /\ CurrentAction.turtle.malformed
    /\ m_pc' = "raised"
    /\ m_error' = InvalidTurtle(CurrentAction.turtle.error)
    /\ UNCHANGED <<heap, base_graph, base_in, actions, new_graph, m_i, m_trace>>
    /\ OnlyMutate

\* Lines 112-113.
MutNoAction ==
    /\ m_pc = "loop"
    /\ m_i < Len(actions)
    /\ CurrentAction.type = "no_action"
    /\ m_i' = m_i + 1
    /\ m_trace' = Append(m_trace, heap[new_graph].triples)
    /\ UNCHANGED <<heap, base_graph, base_in, actions, new_graph, m_pc, m_error>>
    /\ OnlyMutate

\* Lines 92-113: a type that matches neither branch of the if/elif; the loop
\* goes on to the next action.
MutOtherType ==
    /\ m_pc = "loop"
    /\ m_i < Len(actions)
    /\ CurrentAction.type \notin {"patch_node", "no_action"}
    /\ m_i' = m_i + 1
    /\ m_trace' = Append(m_trace, heap[new_graph].triples)
    /\ UNCHANGED <<heap, base_graph, base_in, actions, new_graph, m_pc, m_error>>
    /\ OnlyMutate

\* Line 115.
MutReturn ==
    /\ m_pc = "loop"
    /\ m_i = Len(actions)
    /\ m_pc' = "returned"
    /\ UNCHANGED <<heap, base_graph, base_in, actions, new_graph, m_i, m_trace, m_error>>
    /\ OnlyMutate

NextMutate ==
    \/ MutClone
    \/ MutPatchNode
    \/ MutPatchMalformed
    \/ MutNoAction
    \/ MutOtherType
    \/ MutReturn

(***************************************************************************)
(* validate_shacl_syntax (graph_utils.py:126-196).                         *)
(***************************************************************************)
URIRef(chars) == [kind |-> "URIRef", value |-> chars]
BNode(label)  == [kind |-> "BNode", value |-> label]
Literal(text) == [kind |-> "Literal", value |-> text]

SH_select   == "sh:select"
SH_sparql   == "sh:sparql"
SH_property == "sh:property"

\* A slip: leaving out the split at "/".
LocalNameAfterHash(chars) == Last(Split(chars, <<"#">>))

\* str(x).split("#")[-1].split("/")[-1]
LocalName(chars) == Last(Split(Last(Split(chars, <<"#">>)), <<"/">>))

Unknown_Shape == <<"U", "n", "k", "n", "o", "w", "n", "_", "S", "h", "a", "p", "e">>
Prop_Suffix   == <<"_", "P", "r", "o", "p">>

\* Shapes and constraint nodes of the shapes graphs considered.
ShapeA == URIRef(<<"e", "/", "s", "#", "A">>)
ShapeB == URIRef(<<"e", "/", "B">>)
ShapeC == URIRef(<<"e", "#", "C", "/", "D">>)
Blank1 == BNode(<<"b", "1">>)
Blank2 == BNode(<<"b", "2">>)

\* Query texts: one that compiles, one with an unbalanced brace, one that
\* uses the prefix ex: and compiles only where ex: is bound.
QuerySelect     == Literal("SELECT ?x WHERE { ?x a ?y }")
QueryUnbalanced == Literal("SELECT ?x WHERE { ?x")
QueryPrefixed   == Literal("SELECT ?x WHERE { ?x a ex:T }")

\* str() of the exception prepareQuery raises.
ParseExceptionText == <<"E", "x", "p", "e", "c", "t", "e", "d", " ", "'", "}", "'", " ", " ", "(", "a", "t", " ", "c", "h", "a", "r", " ", "2", "0", ")", ",", " ", "(", "l", "i", "n", "e", ":", "1", ",", " ", "c", "o", "l", ":", "2", "1", ")">>
UnknownPrefixText  == <<"U", "n", "k", "n", "o", "w", "n", " ", "n", "a", "m", "e", "s", "p", "a", "c", "e", " ", "p", "r", "e", "f", "i", "x", " ", ":", " ", "e", "x">>
BadSyntaxText      == <<"a", "t", " ", "l", "i", "n", "e", " ", "1", ":", "\n", "B", "a", "d", " ", "s", "y", "n", "t", "a", "x">>

\* str.replace("\n", " ")
ReplaceNewlines(chars) == [k \in DOMAIN chars |-> IF chars[k] = "\n" THEN " " ELSE chars[k]]

\* prepareQuery(sparql_string, initNs=namespaces): "ok", or the exception.
PrepareQuery(sparql_string, initNs) ==
    IF sparql_string = QueryUnbalanced.value
    THEN [raises |-> "ParseException", text |-> ParseExceptionText]
    ELSE IF sparql_string = QueryPrefixed.value /\ "ex" \notin initNs
    THEN [raises |-> "Exception", text |-> UnknownPrefixText]
    ELSE [raises |-> "None", text |-> <<>>]

ShapeCandidates ==
    ({ShapeC, Blank1, Blank2} \X {SH_select} \X {QuerySelect, QueryUnbalanced, QueryPrefixed})
    \cup ({ShapeA, ShapeB} \X {SH_sparql} \X {Blank1, Blank2})
    \cup ({ShapeA, ShapeB} \X {SH_property} \X {Blank1, Blank2})

ShapesTexts ==
    {[malformed |-> FALSE, triples |-> T, prefixes |-> P] :
        T \in {U \in SUBSET ShapeCandidates : Cardinality(U) <= MaxShapeTriples},
        P \in {{"sh"}, {"sh", "ex"}}}
    \cup {[malformed |-> TRUE, triples |-> {}, prefixes |-> {}]}

InitValidate ==
    /\ shacl_ttl_string \in ShapesTexts
    /\ v_graph = {}
    /\ namespaces = {}
    /\ results = {}
    /\ v_checked = <<>>
    /\ constraint_node = NoNode
    /\ shape_name = <<>>
    /\ collected_errors = <<>>
    /\ v_result = NoResult
    /\ v_pc = "call"

IdleValidate ==
    /\ shacl_ttl_string = [malformed |-> FALSE, triples |-> {}, prefixes |-> {}]
    /\ v_graph = {}
    /\ namespaces = {}
    /\ results = {}
    /\ v_checked = <<>>
    /\ constraint_node = NoNode
    /\ shape_name = <<>>
    /\ collected_errors = <<>>
    /\ v_result = NoResult
    /\ v_pc = "idle"

\* Lines 143-151: the text parses.
ValParse ==
    /\ v_pc = "call"
    /\ ~shacl_ttl_string.malformed
    /\ v_graph' = shacl_ttl_string.triples
    /\ namespaces' = shacl_ttl_string.prefixes
    /\ v_pc' = "parsed"
    /\ UNCHANGED <<shacl_ttl_string, results, v_checked, constraint_node, shape_name,
                   collected_errors, v_result>>
    /\ OnlyValidate

\* Lines 146-149: the text does not parse.
ValParseFails ==
    /\ v_pc = "call"
    /\ shacl_ttl_string.malformed
    /\ v_result' = <<FALSE, "RDF_SYNTAX", ReplaceNewlines(BadSyntaxText)>>
    /\ v_pc' = "returned"
    /\ UNCHANGED <<shacl_ttl_string, v_graph, namespaces, results, v_checked,
                   constraint_node, shape_name, collected_errors>>
    /\ OnlyValidate

\* QUERY_FINDER: one row per triple ?constraintNode sh:select ?sparql.
QueryFinder(graph) ==
    {[constraintNode |-> t[1], sparql |-> t[3]] : t \in {u \in graph : u[2] = SH_select}}

\* Lines 154-157.
ValQuery ==
    /\ v_pc = "parsed"
    /\ collected_errors' = <<>>
    /\ results' = QueryFinder(v_graph)
    /\ v_pc' = "loop"
    /\ UNCHANGED <<shacl_ttl_string, v_graph, namespaces, v_checked, constraint_node,
                   shape_name, v_result>>
    /\ OnlyValidate

\* graph.subjects(predicate, node)
SubjectsOf(graph, predicate, node) ==
    {t[1] : t \in {u \in graph : u[2] = predicate /\ u[3] = node}}

\* A slip: forgetting the search for sh:property parents.
ShapeNamesSparqlOnly(graph, node) ==
    IF node.kind = "BNode"
    THEN IF SubjectsOf(graph, SH_sparql, node) # {}
         THEN {LocalName(parent.value) : parent \in SubjectsOf(graph, SH_sparql, node)}
         ELSE {Unknown_Shape}
    ELSE {LocalName(node.value)}

\* A slip: the two parent searches in the other order.
ShapeNamesPropertyFirst(graph, node) ==
    IF node.kind = "BNode"
    THEN IF SubjectsOf(graph, SH_property, node) # {}
         THEN {LocalName(parent.value) : parent \in SubjectsOf(graph, SH_property, node)}
         ELSE IF SubjectsOf(graph, SH_sparql, node) # {}
         THEN {LocalName(parent.value) \o Prop_Suffix :
                  parent \in SubjectsOf(graph, SH_sparql, node)}
         ELSE {Unknown_Shape}
    ELSE {LocalName(node.value)}

\* Lines 163-177: the names shape_name can get; parents[0] is whichever
\* parent the store lists first.
ShapeNames(graph, node) ==
    IF node.kind = "BNode"
    THEN IF SubjectsOf(graph, SH_sparql, node) # {}
         THEN {LocalName(parent.value) : parent \in SubjectsOf(graph, SH_sparql, node)}
         ELSE IF SubjectsOf(graph, SH_property, node) # {}
         THEN {LocalName(parent.value) \o Prop_Suffix :
                  parent \in SubjectsOf(graph, SH_property, node)}
         ELSE {Unknown_Shape}
    ELSE {LocalName(node.value)}

\* Lines 182-187: the message of a failed compilation.
CompileMessage(outcome) ==
    IF outcome.raises = "ParseException"
    THEN Strip(First(Split(ReplaceNewlines(outcome.text), <<"(", "a", "t", " ", "c", "h", "a", "r">>)))
    ELSE ReplaceNewlines(outcome.text)

\* f"{shape_name}: {msg}"
ErrorEntry(name, msg) == name \o <<":", " ">> \o msg

\* A slip: giving up at the first query that fails.
RemainingAfterFailure(rows, row, failed) == IF failed THEN {} ELSE rows \ {row}

\* The rows the loop still has to visit after `row`.
Remaining(rows, row, failed) == rows \ {row}

\* Lines 159-187: one turn of the loop over the rows.
ValCheckRow ==
    /\ v_pc = "loop"
    /\ \E row \in results :
          LET outcome == PrepareQuery(row.sparql.value, namespaces)
              failed  == outcome.raises # "None"
          IN  /\ constraint_node' = row.constraintNode
              /\ shape_name' \in ShapeNames(v_graph, row.constraintNode)
              /\ collected_errors' =
                    IF failed
                    THEN Append(collected_errors,
                                ErrorEntry(shape_name', CompileMessage(outcome)))
                    ELSE collected_errors
              /\ results' = Remaining(results, row, failed)
              /\ v_checked' = Append(v_checked, row)
    /\ UNCHANGED <<shacl_ttl_string, v_graph, namespaces, v_result, v_pc>>
    /\ OnlyValidate

Separator == <<" ", "|", " ">>

\* Lines 192-196.
ValReturn ==
    /\ v_pc = "loop"
    /\ results = {}
    /\ v_result' = IF collected_errors # <<>>
                   THEN <<FALSE, "SPARQL_SYNTAX", Join(collected_errors, Separator)>>
                   ELSE <<TRUE, "VALID", <<"O", "K">> >>
    /\ v_pc' = "returned"
    /\ UNCHANGED <<shacl_ttl_string, v_graph, namespaces, results, v_checked,
                   constraint_node, shape_name, collected_errors>>
    /\ OnlyValidate

NextValidate ==
    \/ ValParse
    \/ ValParseFails
    \/ ValQuery
    \/ ValCheckRow
    \/ ValReturn

(***************************************************************************)
(* resolve_node_path (graph_utils.py:199-243).                             *)
(***************************************************************************)
\* SC[part]: the predicate of the schema namespace with that local name.
SC(part) == [ns |-> "http://example.org/schema#", local |-> part]
EX(part) == [ns |-> "http://example.org/", local |-> part]

Alice       == URIRef("alice")
AliceParent == URIRef("aliceParent")
Amount5000  == Literal("5000")

PathParts       == {"hasIncome", "amount"}
CitizenSubjects == {Alice, AliceParent}
CitizenCandidates ==
    CitizenSubjects
    \X {SC("hasIncome"), SC("amount"), EX("amount")}
    \X {Alice, AliceParent, Amount5000}

InitResolve ==
    /\ citizen_graph \in {T \in SUBSET CitizenCandidates : Cardinality(T) <= MaxCitizenTriples}
    /\ root_uri \in {Alice}
    /\ path_list \in SeqsUpTo(PathParts, MaxPath)
    /\ datatype \in {"URI", "literal"}
    /\ traversal_parts = <<>>
    /\ current_nodes = {}
    /\ r_result = NoResult
    /\ r_pc = "call"

IdleResolve ==
    /\ citizen_graph = {}
    /\ root_uri = NoNode
    /\ path_list = <<>>
    /\ datatype = "URI"
    /\ traversal_parts = <<>>
    /\ current_nodes = {}
    /\ r_result = NoResult
    /\ r_pc = "idle"

\* path_list[:-1]
AllButLast(list) == SubSeq(list, 1, Len(list) - 1)

\* A slip: walking the full path whatever the datatype.
TraversalPartsFullPath(path, dtype) == path

\* Lines 214-220.
TraversalParts(path, dtype) == IF dtype = "URI" THEN path ELSE AllButLast(path)

\* Lines 214-223.
ResStart ==
    /\ r_pc = "call"
    /\ traversal_parts' = TraversalParts(path_list, datatype)
    /\ current_nodes' = {root_uri}
    /\ r_pc' = IF traversal_parts' = <<>> THEN "exit" ELSE "loop"
    /\ UNCHANGED <<citizen_graph, root_uri, path_list, datatype, r_result>>
    /\ OnlyResolve

\* citizen_graph.objects(node, predicate)
ObjectsVia(graph, node, predicate) ==
    {t[3] : t \in {u \in graph : u[1] = node /\ u[2] = predicate}}

\* Lines 233-235: whether obj is added to next_nodes.
KeepObject(obj, dtype) == ~(obj.kind = "Literal" /\ dtype = "URI")

\* Lines 226-235: next_nodes for one part.
NextNodes(graph, nodes, part, dtype) ==
    {obj \in UNION {ObjectsVia(graph, node, SC(part)) : node \in nodes} :
        KeepObject(obj, dtype)}

\* Lines 225-241: one turn of the loop, with the early exit.
ResHop ==
    /\ r_pc = "loop"
    /\ current_nodes' = NextNodes(citizen_graph, current_nodes, Head(traversal_parts), datatype)
    /\ traversal_parts' = Tail(traversal_parts)
    /\ r_pc' = IF current_nodes' = {} \/ traversal_parts' = <<>> THEN "exit" ELSE "loop"
    /\ UNCHANGED <<citizen_graph, root_uri, path_list, datatype, r_result>>
    /\ OnlyResolve

\* Line 243.
ResReturn ==
    /\ r_pc = "exit"
    /\ r_result' = current_nodes
    /\ r_pc' = "returned"
    /\ UNCHANGED <<citizen_graph, root_uri, path_list, datatype, traversal_parts,
                   current_nodes>>
    /\ OnlyResolve

NextResolve ==
    \/ ResStart
    \/ ResHop
    \/ ResReturn

(***************************************************************************)
(* parse_validation_report (testing_utils.py:6-63).                        *)
(***************************************************************************)
RDF_type            == "rdf:type"
SH_ValidationResult == "sh:ValidationResult"
SH_sourceShape      == "sh:sourceShape"
SH_resultMessage    == "sh:resultMessage"

Result1 == BNode(<<"r", "1">>)
Result2 == BNode(<<"r", "2">>)

MessageText  == Literal(<<"L", "e", "s", "s", " ", "t", "h", "a", "n", " ", "1">>)
EmptyMessage == Literal(<<>>)
Unknown      == <<"U", "n", "k", "n", "o", "w", "n">>

ReportCandidates ==
    ({Result1, Result2} \X {RDF_type} \X {SH_ValidationResult})
    \cup ({Result1, Result2} \X {SH_sourceShape} \X {ShapeC, Blank1, Blank2})
    \cup ({Result1, Result2} \X {SH_resultMessage} \X {MessageText})
    \cup ({Result2} \X {SH_resultMessage} \X {EmptyMessage})

ShaclCandidates ==
    {<<ShapeA, SH_property, Blank1>>, <<ShapeA, SH_property, Blank2>>,
     <<ShapeA, SH_sparql, Blank2>>, <<ShapeB, SH_sparql, Blank2>>}

InitReport ==
    /\ conforms \in BOOLEAN
    /\ results_graph \in {T \in SUBSET ReportCandidates : Cardinality(T) <= MaxReportTriples}
    /\ results_text \in {"Validation Report"}
    /\ shacl_graph \in SUBSET ShaclCandidates
    /\ result_nodes = {}
    /\ rep_read = <<>>
    /\ failed_shapes = <<>>
    /\ messages = <<>>
    /\ summary = NoResult
    /\ rep_pc = "call"

IdleReport ==
    /\ conforms = TRUE
    /\ results_graph = {}
    /\ results_text = ""
    /\ shacl_graph = {}
    /\ result_nodes = {}
    /\ rep_read = <<>>
    /\ failed_shapes = <<>>
    /\ messages = <<>>
    /\ summary = NoResult
    /\ rep_pc = "idle"

\* Lines 20-26.
RepConforms ==
    /\ rep_pc = "call"
    /\ conforms
    /\ summary' = [violation_count |-> 0, failed_shapes |-> <<"N", "o", "n", "e">>,
                   messages |-> <<"N", "o", "n", "e">>, full_report |-> "Conforms: True"]
    /\ rep_pc' = "returned"
    /\ UNCHANGED <<conforms, results_graph, results_text, shacl_graph, result_nodes,
                   rep_read, failed_shapes, messages>>
    /\ OnlyReport

\* Lines 28-31.
RepStart ==
    /\ rep_pc = "call"
    /\ ~conforms
    /\ failed_shapes' = <<>>
    /\ messages' = <<>>
    /\ result_nodes' = SubjectsOf(results_graph, RDF_type, SH_ValidationResult)
    /\ rep_pc' = "loop"
    /\ UNCHANGED <<conforms, results_graph, results_text, shacl_graph, rep_read, summary>>
    /\ OnlyReport

\* graph.value(subject, predicate): one of the objects, or None.
Value(graph, subject, predicate) ==
    IF ObjectsVia(graph, subject, predicate) = {} THEN {NoNode}
    ELSE ObjectsVia(graph, subject, predicate)

\* Lines 34-49: the names shape_name can get for a source shape.
ReportShapeNames(graph, source_shape) ==
    IF source_shape.kind = "BNode"
    THEN LET parent == IF SubjectsOf(graph, SH_property, source_shape) # {}
                       THEN SubjectsOf(graph, SH_property, source_shape)
                       ELSE SubjectsOf(graph, SH_sparql, source_shape)
         IN  IF parent # {} THEN {LocalName(x.value) : x \in parent} ELSE {Unknown}
    ELSE {LocalName(source_shape.value)}

\* A slip: a list where the set was meant.
AddShapeToList(shapes, name) == Append(shapes, name)

\* Line 51: failed_shapes.add(shape_name)
AddShape(shapes, name) == IF name \in Range(shapes) THEN shapes ELSE Append(shapes, name)

\* `if message:` -- a literal is true unless its text is empty.
Truthy(message) == message # NoNode /\ message.value # <<>>

\* Lines 31-56: one turn of the loop over the validation results.
RepResult ==
    /\ rep_pc = "loop"
    /\ \E result_node \in result_nodes :
       \E source_shape \in Value(results_graph, result_node, SH_sourceShape) :
       \E message \in Value(results_graph, result_node, SH_resultMessage) :
       \E name \in IF source_shape = NoNode THEN {Unknown}
                   ELSE ReportShapeNames(shacl_graph, source_shape) :
          /\ failed_shapes' = IF source_shape = NoNode THEN failed_shapes
                              ELSE AddShape(failed_shapes, name)
          /\ messages' = IF Truthy(message) THEN Append(messages, message.value)
                         ELSE messages
          /\ rep_read' = Append(rep_read, [source_shape |-> source_shape,
                                           shape_name |-> name, message |-> message])
          /\ result_nodes' = result_nodes \ {result_node}
    /\ UNCHANGED <<conforms, results_graph, results_text, shacl_graph, summary, rep_pc>>
    /\ OnlyReport

\* Lines 58-63.
RepReturn ==
    /\ rep_pc = "loop"
    /\ result_nodes = {}
    /\ summary' = [violation_count |-> Len(messages),
                   failed_shapes |-> Join(Sorted(failed_shapes), <<";", " ">>),
                   messages |-> Join(messages, <<" ", "|", " ">>),
                   full_report |-> results_text]
    /\ rep_pc' = "returned"
    /\ UNCHANGED <<conforms, results_graph, results_text, shacl_graph, result_nodes,
                   rep_read, failed_shapes, messages>>
    /\ OnlyReport

NextReport ==
    \/ RepConforms
    \/ RepStart
    \/ RepResult
    \/ RepReturn

(***************************************************************************)
(* get_semantic_hash (src/src/graph_utils.py, lines 91-114).               *)
(* The caller hashes a serialization of a graph G and then a serialization *)
(* of R(G), R a renaming of G's blank nodes.                               *)
(***************************************************************************)
\* Blank-node labels a Turtle text can spell, and the identifiers the
\* parser can give a blank node: the label as spelled, or a generated one.
TextLabels == {<<"a">>, <<"b">>}
ParserIds  == {<<"a">>, <<"b">>, <<"n", "1">>, <<"n", "2">>}

HashSubjects == {BNode(l) : l \in TextLabels} \cup {URIRef(<<"s">>)}
HashObjects  == {BNode(l) : l \in TextLabels} \cup {URIRef(<<"o">>)}
HashTriples  == HashSubjects \X {URIRef(<<"p">>)} \X HashObjects
HashGraphs   == {G \in SUBSET HashTriples : Cardinality(G) <= MaxHashTriples}

\* A renaming of blank nodes: an injective map on the labels.
Injections(D, C) == {f \in [D -> C] : \A x, y \in D : f[x] = f[y] => x = y}
Relabelings      == Injections(TextLabels, TextLabels)

RenameTerm(t, f)    == IF t.kind = "BNode" THEN BNode(f[t.value]) ELSE t
RenameTriple(t, f)  == <<RenameTerm(t[1], f), t[2], RenameTerm(t[3], f)>>
RenameGraph(G, f)   == {RenameTriple(t, f) : t \in G}

\* Graph.serialize(format="turtle") as the parser reads it back: the
\* statements, blank nodes spelled by their labels.
Serialize(G) == [malformed |-> FALSE, statements |-> G]

InitHash ==
    /\ h_G \in HashGraphs
    /\ h_R \in Relabelings
    /\ rdf_text = NoTurtle
    /\ h_graph = {}
    /\ h_result = NoResult
    /\ h_digests = <<>>
    /\ h_pc = "idle"

IdleHash ==
    /\ h_G = {}
    /\ h_R = <<>>
    /\ rdf_text = NoTurtle
    /\ h_graph = {}
    /\ h_result = NoResult
    /\ h_digests = <<>>
    /\ h_pc = "idle"

\* Line 91: the function is entered, first with a serialization of G and
\* then with one of R(G); either text may also be cut short in transit.
HashCall ==
    /\ h_pc \in {"idle", "returned"}
    /\ Len(h_digests) < 2
    /\ \E malformed \in BOOLEAN :
          rdf_text' = [Serialize(IF h_digests = <<>> THEN h_G ELSE RenameGraph(h_G, h_R))
                         EXCEPT !.malformed = malformed]
    /\ h_graph' = {}
    /\ h_result' = NoResult
    /\ h_pc' = "call"
    /\ UNCHANGED <<h_G, h_R, h_digests>>
    /\ OnlyHash

\* Lines 103-105: the parse gives every blank node of the text an identifier.
HashParse ==
    /\ h_pc = "call"
    /\ ~rdf_text.malformed
    /\ \E ids \in Injections(TextLabels, ParserIds) :
          h_graph' = RenameGraph(rdf_text.statements, ids)
    /\ h_pc' = "parsed"
    /\ UNCHANGED <<h_G, h_R, rdf_text, h_result, h_digests>>
    /\ OnlyHash

\* Line 107: the sentinel (a string that is no hexdigest).
INVALID_RDF == [str |-> "INVALID_RDF"]

\* A slip: letting the parser's exception leave the function.
HashParseFailsRaises ==
    /\ h_pc = "call"
    /\ rdf_text.malformed
    /\ h_pc' = "raised"
    /\ UNCHANGED <<h_G, h_R, rdf_text, h_graph, h_result, h_digests>>
    /\ OnlyHash

\* Lines 106-107.
HashParseFails ==
    /\ h_pc = "call"
    /\ rdf_text.malformed
    /\ h_result' = INVALID_RDF
    /\ h_digests' = Append(h_digests, [rdf_text |-> rdf_text, digest |-> INVALID_RDF])
    /\ h_pc' = "returned"
    /\ UNCHANGED <<h_G, h_R, rdf_text, h_graph>>
    /\ OnlyHash

\* Line 109: to_isomorphic wraps the graph; its triples are the graph's.
ToIsomorphic(graph) == graph

\* rdflib orders terms by kind and then by their text.
KindOrder == <<"BNode", "URIRef", "Literal">>
KindRank(t) == CHOOSE k \in DOMAIN KindOrder : KindOrder[k] = t.kind
TermLess(x, y) ==
    \/ KindRank(x) < KindRank(y)
    \/ KindRank(x) = KindRank(y) /\ StrLess(x.value, y.value)

TripleLess(t, u) ==
    \/ TermLess(t[1], u[1])
    \/ t[1] = u[1] /\ TermLess(t[2], u[2])
    \/ t[1] = u[1] /\ t[2] = u[2] /\ TermLess(t[3], u[3])

\* Line 112: sorted(list(iso_graph))
RECURSIVE SortedTriples(_)
SortedTriples(G) ==
    IF G = {} THEN <<>>
    ELSE LET least == CHOOSE t \in G : \A u \in G : ~TripleLess(u, t)
         IN  <<least>> \o SortedTriples(G \ {least})

\* Line 113: str(t) of a triple spells the kind and the text of each term.
TripleStr(t) == <<t[1].kind, t[1].value, t[2].kind, t[2].value, t[3].kind, t[3].value>>

RECURSIVE TriplesString(_)
TriplesString(list) ==
    IF list = <<>> THEN <<>> ELSE TripleStr(Head(list)) \o TriplesString(Tail(list))

\* Line 114: the hexdigest, one per string hashed.
Md5(text) == [md5 |-> text]

\* Lines 109-114.
HashDigest ==
    /\ h_pc = "parsed"
    /\ LET iso_graph      == ToIsomorphic(h_graph)
           triples        == SortedTriples(iso_graph)
           triples_string == TriplesString(triples)
       IN  /\ h_result' = Md5(triples_string)
           /\ h_digests' = Append(h_digests, [rdf_text |-> rdf_text,
                                              digest |-> Md5(triples_string)])
    /\ h_pc' = "returned"
    /\ UNCHANGED <<h_G, h_R, rdf_text, h_graph>>
    /\ OnlyHash

NextHash ==
    \/ HashCall
    \/ HashParse
    \/ HashParseFails
    \/ HashDigest

(***************************************************************************)
(* The local name of a named node: graph_utils.py:177 and                  *)
(* testing_utils.py:49, the same expression over str(x).                   *)
(***************************************************************************)
IriChars == {"e", "D", "#", "/"}
IriTexts == SeqsUpTo(IriChars, MaxIri)

InitName ==
    /\ l_iri \in IriTexts
    /\ l_validate = <<>>
    /\ l_report = <<>>
    /\ l_done = {}

IdleName ==
    /\ l_iri = <<>>
    /\ l_validate = <<>>
    /\ l_report = <<>>
    /\ l_done = {}

\* graph_utils.py:177: shape_name = str(constraint_node).split("#")[-1].split("/")[-1]
NameInValidate ==
    /\ "validate" \notin l_done
    /\ l_validate' = LocalName(l_iri)
    /\ l_done' = l_done \cup {"validate"}
    /\ UNCHANGED <<l_iri, l_report>>
    /\ OnlyName

\* testing_utils.py:49: shape_name = str(source_shape).split("#")[-1].split("/")[-1]
NameInReport ==
    /\ "report" \notin l_done
    /\ l_report' = LocalName(l_iri)
    /\ l_done' = l_done \cup {"report"}
    /\ UNCHANGED <<l_iri, l_validate>>
    /\ OnlyName

NextName ==
    \/ NameInValidate
    \/ NameInReport

(***************************************************************************)
(* with_retries (src/src/llm_utils.py, lines 116-162).                     *)
(***************************************************************************)
\* str.lower() for the letters the messages use.
UpperCase == <<"A", "D", "E", "H", "O", "S", "T", "U", "X">>
LowerCase == <<"a", "d", "e", "h", "o", "s", "t", "u", "x">>
Lower(str) ==
    [i \in DOMAIN str |->
        IF \E k \in DOMAIN UpperCase : UpperCase[k] = str[i]
        THEN LowerCase[CHOOSE k \in DOMAIN UpperCase : UpperCase[k] = str[i]]
        ELSE str[i]]

\* str(w_e) of the exceptions func raises.
MsgOverloaded == <<"5", "0", "3", " ", "O", "v", "e", "r", "l", "o", "a", "d", "e", "d">>
MsgExhausted  == <<"4", "2", "9", " ", "R", "E", "S", "O", "U", "R", "C", "E", "_", "E", "X", "H", "A", "U", "S", "T", "E", "D">>
MsgBoth       == <<"o", "v", "e", "r", "l", "o", "a", "d", "e", "d", ",", " ", "q", "u", "o", "t", "a", " ", "e", "x", "h", "a", "u", "s", "t", "e", "d">>
MsgOther      == <<"t", "i", "m", "e", "o", "u", "t">>
Messages      == {MsgOverloaded, MsgExhausted, MsgBoth, MsgOther}

\* Lines 140-142.
Overloaded(text) == Contains(Lower(text), <<"o", "v", "e", "r", "l", "o", "a", "d", "e", "d">>)
Exhausted(text)  == Contains(Lower(text), <<"e", "x", "h", "a", "u", "s", "t", "e", "d">>)

\* 2 ** n
RECURSIVE Pow2(_)
Pow2(n) == IF n = 0 THEN 1 ELSE 2 * Pow2(n - 1)

Min(a, b) == IF a <= b THEN a ELSE b

NothingRaised == [type |-> "None", text |-> <<>>]

InitRetry ==
    /\ base_delay \in {1, 4}
    /\ overloads = 0
    /\ exhaustions = 0
    /\ w_e = <<>>
    /\ wait = 0
    /\ w_failures = <<>>
    /\ w_raised = NothingRaised
    /\ w_pc = "try"

IdleRetry ==
    /\ base_delay = 4
    /\ overloads = 0
    /\ exhaustions = 0
    /\ w_e = <<>>
    /\ wait = 0
    /\ w_failures = <<>>
    /\ w_raised = NothingRaised
    /\ w_pc = "idle"

\* Line 138: func returns.
RetryReturns ==
    /\ w_pc = "try"
    /\ w_pc' = "returned"
    /\ UNCHANGED <<base_delay, overloads, exhaustions, w_e, wait, w_failures, w_raised>>
    /\ OnlyRetry

\* Lines 138-139: func raises; it stops being overloaded after MaxOverloads
\* such failures.
RetryFails ==
    /\ w_pc = "try"
    /\ \E text \in Messages :
          /\ Overloaded(text) =>
                Len(SelectSeq(w_failures, Overloaded)) < MaxOverloads
          /\ w_e' = text
          /\ w_failures' = Append(w_failures, text)
    /\ w_pc' = "except"
    /\ UNCHANGED <<base_delay, overloads, exhaustions, wait, w_raised>>
    /\ OnlyRetry

\* Lines 144-149.
RetryOverloaded ==
    /\ w_pc = "except"
    /\ Overloaded(w_e)
    /\ overloads' = overloads + 1
    /\ wait' = Min(base_delay * Pow2(overloads'), 60)
    /\ w_pc' = "try"
    /\ UNCHANGED <<base_delay, exhaustions, w_e, w_failures, w_raised>>
    /\ OnlyRetry

\* A slip: stopping one exhaustion late.
ExhaustionsReachedLate(n) == n >= 6

\* Line 154.
ExhaustionsReached(n) == n >= 5

\* Lines 151-159.
RetryExhausted ==
    /\ w_pc = "except"
    /\ ~Overloaded(w_e)
    /\ Exhausted(w_e)
    /\ overloads' = 0
    /\ exhaustions' = exhaustions + 1
    /\ IF ExhaustionsReached(exhaustions')
       THEN /\ w_raised' = [type |-> "GeminiExhaustedException",
                            text |-> <<"Gemini daily quota likely exceeded (5x 429 errors).">>]
            /\ w_pc' = "raised"
            /\ wait' = wait
       ELSE /\ w_raised' = w_raised
            /\ w_pc' = "try"
            /\ wait' = 60
    /\ UNCHANGED <<base_delay, w_e, w_failures>>
    /\ OnlyRetry

\* Line 162: raise e
RetryOther ==
    /\ w_pc = "except"
    /\ ~Overloaded(w_e)
    /\ ~Exhausted(w_e)
    /\ w_raised' = [type |-> "Exception", text |-> w_e]
    /\ w_pc' = "raised"
    /\ UNCHANGED <<base_delay, overloads, exhaustions, w_e, wait, w_failures>>
    /\ OnlyRetry

NextRetry ==
    \/ RetryReturns
    \/ RetryFails
    \/ RetryOverloaded
    \/ RetryExhausted
    \/ RetryOther

(***************************************************************************)
(* apply_mutations as a relation: the graphs a call can return.            *)
(***************************************************************************)
\* The graphs one action can leave, from the graph `triples`.
ActionOutcomes(triples, action) ==
    IF action.type = "patch_node"
    THEN IF action.turtle.malformed THEN {}
         ELSE {PatchNode(triples, order) : order \in Orders(action.turtle.statements)}
    ELSE {triples}

RECURSIVE LoopOutcomes(_, _)
LoopOutcomes(triples, acts) ==
    IF acts = <<>> THEN {triples}
    ELSE UNION {LoopOutcomes(g, Tail(acts)) : g \in ActionOutcomes(triples, Head(acts))}

\* The triple sets apply_mutations(base, acts) can return (none when it raises).
ApplyOutcomes(triples, acts) == LoopOutcomes(CloneTriples(triples), acts)

ObjectsOf(triples, s, p) == {t[3] : t \in {u \in triples : u[1] = s /\ u[2] = p}}
PairsOf(triples)         == {<<t[1], t[2]>> : t \in triples}

Applied(i)     == actions[i].type = "patch_node" /\ ~actions[i].turtle.malformed
Snippet(i)     == actions[i].turtle.statements
NewTriples     == heap[new_graph].triples
AppliedTriples == UNION {Snippet(i) : i \in {j \in 1..m_i : Applied(j)}}

(***************************************************************************)
(* Specifications: one call of one function each.                          *)
(***************************************************************************)
\* The frames that stay idle while the named ones run.
IdleExcept(running) ==
    /\ "mutate" \in running \/ IdleMutate
    /\ "validate" \in running \/ IdleValidate
    /\ "resolve" \in running \/ IdleResolve
    /\ "report" \in running \/ IdleReport
    /\ "hash" \in running \/ IdleHash
    /\ "name" \in running \/ IdleName
    /\ "retry" \in running \/ IdleRetry

InitSpecMutate   == IdleExcept({"mutate"}) /\ InitMutate
InitSpecValidate == IdleExcept({"validate"}) /\ InitValidate
InitSpecResolve  == IdleExcept({"resolve"}) /\ InitResolve
InitSpecReport   == IdleExcept({"report"}) /\ InitReport
InitSpecHash     == IdleExcept({"hash"}) /\ InitHash
InitSpecName     == IdleExcept({"name"}) /\ InitName
InitSpecRetry    == IdleExcept({"retry"}) /\ InitRetry

SpecMutate   == InitSpecMutate /\ [][NextMutate]_vars
SpecValidate == InitSpecValidate /\ [][NextValidate]_vars
SpecResolve  == InitSpecResolve /\ [][NextResolve]_vars
SpecReport   == InitSpecReport /\ [][NextReport]_vars
SpecHash     == InitSpecHash /\ [][NextHash]_vars
SpecName     == InitSpecName /\ [][NextName]_vars
SpecRetry    == InitSpecRetry /\ [][NextRetry]_vars

\* The call keeps running: the loop takes its next step whenever it has one.
SpecRetryFair == SpecRetry /\ WF_vars(NextRetry)

(***************************************************************************)
(* Claims about apply_mutations, checked under SpecMutate.                 *)
(***************************************************************************)

\* C2 (as stated): after a patch_node action whose snippet holds several
\* triples with the same subject s and predicate p, the (s, p, *) triples of
\* the new graph are exactly the objects the snippet states for (s, p).
C2_SnippetValueSetKept ==
    \A i \in 1..m_i :
        Applied(i) =>
            \A sp \in PairsOf(Snippet(i)) :
                Cardinality(ObjectsOf(Snippet(i), sp[1], sp[2])) > 1 =>
                    ObjectsOf(m_trace[i + 1], sp[1], sp[2])
                        = ObjectsOf(Snippet(i), sp[1], sp[2])

\* C3: a list holding an action whose type is neither patch_node
\* nor no_action never makes apply_mutations return a graph; the call fails.
C3_UnknownTypeFails ==
    (\E i \in 1..Len(actions) : actions[i].type \notin {"patch_node", "no_action"})
        => m_pc # "returned"

\* What the code does with such an action: it passes over it. The action
\* leaves the new graph as it was, the loop goes on to the next action, and
\* the only error the call raises is the one of a patch snippet that does not
\* parse.
C3_UnknownTypeIgnored ==
    /\ \A i \in 1..m_i :
          actions[i].type \notin {"patch_node", "no_action"} => m_trace[i + 1] = m_trace[i]
    /\ m_pc = "raised" =>
          /\ m_error = InvalidTurtle(CurrentAction.turtle.error)
          /\ CurrentAction.type = "patch_node"
          /\ CurrentAction.turtle.malformed
    /\ (m_pc = "loop" /\ m_i < Len(actions)
            /\ CurrentAction.type \notin {"patch_node", "no_action"})
          => ENABLED MutOtherType

\* C7: after apply_mutations, every base triple whose (s, p) is the pair of no
\* applied snippet triple is in the new graph; the new graph holds no triple
\* that is neither a base triple nor a triple of an applied snippet; and a
\* snippet stating one triple (s, p, o) leaves o as the only value of p on s.
C7_PatchFrame ==
    m_pc \in {"loop", "returned"} =>
        /\ \A t \in base_in.triples :
              <<t[1], t[2]>> \notin PairsOf(AppliedTriples) => t \in NewTriples
        /\ NewTriples \subseteq base_in.triples \cup AppliedTriples
        /\ \A i \in 1..m_i :
              (Applied(i) /\ Cardinality(Snippet(i)) = 1) =>
                  \A t \in Snippet(i) :
                      ObjectsOf(m_trace[i + 1], t[1], t[2]) = {t[3]}

C7_Witness ==
    /\ m_pc = "returned"
    /\ base_in.triples = {<<"alice", "age", "30">>, <<"alice", "name", "30">>,
                           <<"bob", "age", "30">>}
    /\ base_in.ns = DefaultBindings
    /\ Len(actions) = 1
    /\ Applied(1)
    /\ Snippet(1) = {<<"alice", "age", "31">>}
    /\ NewTriples = {<<"alice", "age", "31">>, <<"alice", "name", "30">>,
                      <<"bob", "age", "30">>}

\* C8 (as stated): apply_mutations never changes its input graph (triples
\* and namespace bindings stay what they were at the call, whether it returns
\* or raises), and right after the clone the new graph holds exactly the base
\* graph's triples and namespace bindings.
C8_BaseUntouchedExactCopy ==
    /\ m_pc # "idle" => heap[base_graph] = base_in
    /\ m_pc # "call" => new_graph # base_graph
    /\ m_pc \in {"loop", "returned", "raised"} =>
          /\ m_trace[1] = base_in.triples
          /\ Bindings(heap[new_graph].ns) = Bindings(base_in.ns)

\* The part of C8 the code keeps: the input graph is never written and the
\* clone holds exactly its triples.
C8_BaseUntouched ==
    /\ m_pc # "idle" => heap[base_graph] = base_in
    /\ m_pc # "call" => new_graph # base_graph
    /\ m_pc \in {"loop", "returned", "raised"} => m_trace[1] = base_in.triples

\* C9 (as stated): actions are applied in list order, each on the result of
\* the earlier ones: apply(G, A followed by B) = apply(apply(G, A), B), and
\* when two patch_node actions set the same (s, p), the result holds for
\* (s, p) the value set of the later action.
C9_OrderedLaterWins ==
    m_pc = "returned" =>
        /\ NewTriples \in ApplyOutcomes(base_in.triples, actions)
        /\ \A k \in 0..Len(actions) :
              ApplyOutcomes(base_in.triples, actions)
                = UNION {ApplyOutcomes(g, SubSeq(actions, k + 1, Len(actions))) :
                            g \in ApplyOutcomes(base_in.triples, SubSeq(actions, 1, k))}
        /\ \A i, j \in 1..Len(actions) :
              (i < j /\ Applied(i) /\ Applied(j)) =>
                  \A sp \in PairsOf(Snippet(i)) \cap PairsOf(Snippet(j)) :
                      (\A k \in (j + 1)..Len(actions) :
                            Applied(k) => sp \notin PairsOf(Snippet(k)))
                      => ObjectsOf(NewTriples, sp[1], sp[2])
                            = ObjectsOf(Snippet(j), sp[1], sp[2])

(***************************************************************************)
(* Claims about validate_shacl_syntax, checked under SpecValidate.         *)
(***************************************************************************)
RowChecked == v_pc \in {"loop", "returned"} /\ v_checked # <<>>

\* C4 (as stated): for a blank owning node, a subject linked by sh:property
\* gives its local name without suffix; failing that, a subject linked by
\* sh:sparql gives its local name suffixed with _Prop; failing both, the
\* identity is Unknown_Shape.
C4_PropertyThenSparql ==
    (RowChecked /\ constraint_node.kind = "BNode") =>
        LET viaProperty == SubjectsOf(v_graph, SH_property, constraint_node)
            viaSparql   == SubjectsOf(v_graph, SH_sparql, constraint_node)
        IN  IF viaProperty # {}
            THEN \E parent \in viaProperty : shape_name = LocalName(parent.value)
            ELSE IF viaSparql # {}
            THEN \E parent \in viaSparql :
                    shape_name = LocalName(parent.value) \o Prop_Suffix
            ELSE shape_name = Unknown_Shape

\* C4 (amended): for a blank owning node, a subject linked by sh:sparql gives
\* its local name without suffix; failing that, a subject linked by
\* sh:property gives its local name suffixed with _Prop; failing both, the
\* identity is Unknown_Shape.
C4_SparqlThenProperty ==
    (RowChecked /\ constraint_node.kind = "BNode") =>
        LET viaProperty == SubjectsOf(v_graph, SH_property, constraint_node)
            viaSparql   == SubjectsOf(v_graph, SH_sparql, constraint_node)
        IN  IF viaSparql # {}
            THEN \E parent \in viaSparql : shape_name = LocalName(parent.value)
            ELSE IF viaProperty # {}
            THEN \E parent \in viaProperty :
                    shape_name = LocalName(parent.value) \o Prop_Suffix
            ELSE shape_name = Unknown_Shape

C4_Witness ==
    /\ RowChecked
    /\ constraint_node = Blank1
    /\ SubjectsOf(v_graph, SH_sparql, Blank1) = {ShapeA}
    /\ SubjectsOf(v_graph, SH_property, Blank1) = {ShapeB}
    /\ shape_name = <<"A">>

\* The discovered queries that do not compile, and the message of each.
FailsToCompile(row) ==
    \/ row.sparql = QueryUnbalanced
    \/ row.sparql = QueryPrefixed /\ "ex" \notin shacl_ttl_string.prefixes
ExpectedMessage(row) ==
    IF row.sparql = QueryUnbalanced
    THEN <<"E", "x", "p", "e", "c", "t", "e", "d", " ", "'", "}", "'">>
    ELSE <<"U", "n", "k", "n", "o", "w", "n", " ", "n", "a", "m", "e", "s", "p", "a", "c", "e", " ", "p", "r", "e", "f", "i", "x", " ", ":", " ", "e", "x">>

\* C10: the text parsing, every discovered query is checked; with k >= 1
\* failing queries the result is (false, SPARQL_SYNTAX, detail), detail being
\* k entries "identity: message", one per failing query, joined by " | ";
\* with no failing query the result is (true, VALID, "OK").
C10_AllFailuresReported ==
    (v_pc = "returned" /\ ~shacl_ttl_string.malformed) =>
        LET discovered == QueryFinder(shacl_ttl_string.triples)
            failing    == SelectSeq(v_checked, FailsToCompile)
        IN  /\ Range(v_checked) = discovered
            /\ Len(v_checked) = Cardinality(discovered)
            /\ Len(failing) = Cardinality({row \in discovered : FailsToCompile(row)})
            /\ IF Len(failing) >= 1
               THEN /\ v_result[1] = FALSE
                    /\ v_result[2] = "SPARQL_SYNTAX"
                    /\ \E entries \in {collected_errors} :
                          /\ Len(entries) = Len(failing)
                          /\ \A i \in 1..Len(entries) :
                                \E name \in {Unknown_Shape, <<"A">>, <<"B">>, <<"D">>,
                                             <<"A">> \o Prop_Suffix, <<"B">> \o Prop_Suffix} :
                                    entries[i] = name \o <<":", " ">> \o ExpectedMessage(failing[i])
                          /\ v_result[3] = Join(entries, <<" ", "|", " ">>)
               ELSE v_result = <<TRUE, "VALID", <<"O", "K">> >>

C10_Witness ==
    /\ v_pc = "returned"
    /\ Len(v_checked) = 3
    /\ Len(collected_errors) = 2
    /\ ~FailsToCompile(v_checked[2])
    /\ v_result[2] = "SPARQL_SYNTAX"

(***************************************************************************)
(* Claims about resolve_node_path, checked under SpecResolve.              *)
(***************************************************************************)

\* C5 (as stated): called with the value (literal) datatype, resolve_node_path
\* returns no Literal term, whatever the intermediate hops point to.
C5_ValuePathReturnsNoLiteral ==
    (r_pc = "returned" /\ datatype # "URI") =>
        \A node \in r_result : node.kind # "Literal"

(***************************************************************************)
(* Claims about parse_validation_report, checked under SpecReport.         *)
(***************************************************************************)
ReportDone == rep_pc = "returned" /\ ~conforms

\* The entries of failed_shapes in the summary ("; ".join of nothing is "").
ListedShapes ==
    IF summary.failed_shapes = <<>> THEN <<>>
    ELSE Split(summary.failed_shapes, <<";", " ">>)

ResolvedShapes ==
    {rep_read[i].shape_name : i \in {j \in DOMAIN rep_read : rep_read[j].source_shape # NoNode}}

\* Each distinct resolved identity is listed exactly once.
EachShapeListedOnce ==
    /\ Range(ListedShapes) = ResolvedShapes
    /\ \A i, j \in DOMAIN ListedShapes : ListedShapes[i] = ListedShapes[j] => i = j

\* C6 (as stated): for conforms=false each distinct resolved identity is
\* listed exactly once in failed_shapes, and violation_count equals the number
\* of validation-result entries.
C6_CountsEveryResult ==
    ReportDone =>
        /\ EachShapeListedOnce
        /\ summary.violation_count
              = Cardinality(SubjectsOf(results_graph, RDF_type, SH_ValidationResult))

\* C6 (amended): for conforms=false each distinct resolved identity is listed
\* exactly once in failed_shapes, and violation_count equals the number of
\* validation-result entries whose result message was read and is not empty;
\* two entries with messages whose blank source shapes resolve to the same
\* named shape give one failed shape and violation_count 2.
C6_CountsMessages ==
    ReportDone =>
        /\ EachShapeListedOnce
        /\ Len(rep_read) = Cardinality(SubjectsOf(results_graph, RDF_type, SH_ValidationResult))
        /\ summary.violation_count
              = Cardinality({i \in DOMAIN rep_read :
                                /\ rep_read[i].message \in
                                      {t[3] : t \in {u \in results_graph : u[2] = SH_resultMessage}}
                                /\ rep_read[i].message.value # <<>>})
        /\ (/\ Len(rep_read) = 2
            /\ \A i \in 1..2 : /\ rep_read[i].source_shape \in {Blank1, Blank2}
                               /\ rep_read[i].shape_name = <<"A">>
                               /\ rep_read[i].message = MessageText)
           => (ListedShapes = << <<"A">> >> /\ summary.violation_count = 2)

C6_Witness ==
    /\ ReportDone
    /\ Len(rep_read) = 2
    /\ rep_read[1].source_shape = Blank1
    /\ rep_read[2].source_shape = Blank2
    /\ rep_read[1].shape_name = <<"A">>
    /\ rep_read[2].shape_name = <<"A">>
    /\ summary.failed_shapes = <<"A">>
    /\ summary.violation_count = 2

(***************************************************************************)
(* Claims about get_semantic_hash, checked under SpecHash.                 *)
(***************************************************************************)
BothHashed ==
    /\ Len(h_digests) = 2
    /\ \A k \in 1..2 : ~h_digests[k].rdf_text.malformed

\* C1: get_semantic_hash is invariant to blank-node relabeling: the digest
\* of a serialization of G equals the digest of a serialization of R(G),
\* for every graph G and every structure-preserving renaming R of its blank
\* nodes, whatever identifiers the parses assign.
C1_RelabelingInvariant ==
    BothHashed => h_digests[1].digest = h_digests[2].digest

\* What does hold: graphs without blank nodes hash alike on every call.
C1_GroundGraphsAgree ==
    (BothHashed /\ \A t \in h_G : t[1].kind # "BNode" /\ t[3].kind # "BNode")
        => h_digests[1].digest = h_digests[2].digest

(***************************************************************************)
(* Claims about error handling in apply_mutations, checked under           *)
(* SpecMutate.                                                             *)
(***************************************************************************)
\* C11: when the snippet of a patch_node action does not parse, the whole
\* call fails with the malformed-patch error carrying the parser's message
\* (and returns no graph); the failing action has removed and inserted no
\* triple, and the edits of the earlier actions are still in the new graph.
C11_MalformedPatchFails ==
    /\ m_pc = "raised" =>
          /\ CurrentAction.type = "patch_node"
          /\ CurrentAction.turtle.malformed
          /\ m_error = InvalidTurtle(CurrentAction.turtle.error)
          /\ NewTriples = m_trace[m_i + 1]
          /\ NewTriples \in ApplyOutcomes(base_in.triples, SubSeq(actions, 1, m_i))
    /\ m_pc = "returned" =>
          \A i \in 1..Len(actions) :
              actions[i].type = "patch_node" => ~actions[i].turtle.malformed
    /\ (m_pc = "loop" /\ m_i < Len(actions) /\ CurrentAction.type = "patch_node"
            /\ CurrentAction.turtle.malformed)
          => (ENABLED MutPatchMalformed /\ ~ENABLED MutPatchNode /\ ~ENABLED MutReturn)

C11_Witness ==
    /\ m_pc = "raised"
    /\ m_i = 1
    /\ Applied(1)
    /\ NewTriples # base_in.triples
    /\ m_error = InvalidTurtle("at line 5: expected '.'")

\* C12: for every malformed text, get_semantic_hash returns the sentinel
\* "INVALID_RDF" and raises nothing to the caller; the sentinel is returned
\* only when the parse failed.
C12_SentinelIffMalformed ==
    /\ h_pc # "raised"
    /\ h_pc = "returned" => (h_result = INVALID_RDF <=> rdf_text.malformed)
    /\ \A k \in DOMAIN h_digests :
          h_digests[k].digest = INVALID_RDF <=> h_digests[k].rdf_text.malformed
    /\ (h_pc = "call" /\ rdf_text.malformed)
          => (ENABLED HashParseFails /\ ~ENABLED HashParse)

C12_Witness ==
    /\ Len(h_digests) = 2
    /\ h_digests[1].rdf_text.malformed
    /\ h_digests[1].digest = INVALID_RDF
    /\ ~h_digests[2].rdf_text.malformed
    /\ h_digests[2].digest # INVALID_RDF
    /\ h_G # {}

(***************************************************************************)
(* Claims about the set resolve_node_path returns, checked under           *)
(* SpecResolve.                                                            *)
(***************************************************************************)
\* The objects reachable from `nodes` segment by segment, literal objects
\* discarded at every hop when `discard` is set.
RECURSIVE Reach(_, _, _, _)
Reach(graph, nodes, segments, discard) ==
    IF segments = <<>> THEN nodes
    ELSE LET objects == UNION {{t[3] : t \in {u \in graph : u[1] = n /\ u[2] = SC(Head(segments))}} :
                                  n \in nodes}
             kept    == IF discard THEN {o \in objects : o.kind # "Literal"} ELSE objects
         IN  Reach(graph, kept, Tail(segments), discard)

\* C13: resolve_node_path returns exactly the set reached from {root},
\* segment by segment, by the union of the objects of the segment's
\* predicate: over the full path for the URI datatype (literal objects
\* discarded at every hop), over all but the last segment for the value
\* datatype; once a hop yields no node the result is the empty set.
C13_ReturnsReachableSet ==
    r_pc = "returned" =>
        /\ r_result =
              IF datatype = "URI"
              THEN Reach(citizen_graph, {root_uri}, path_list, TRUE)
              ELSE Reach(citizen_graph, {root_uri},
                         SubSeq(path_list, 1, Len(path_list) - 1), FALSE)
        /\ LET walked == IF datatype = "URI" THEN Len(path_list) ELSE Len(path_list) - 1
           IN  (\E k \in 1..walked :
                    Reach(citizen_graph, {root_uri}, SubSeq(path_list, 1, k),
                          datatype = "URI") = {})
                 => r_result = {}

C13_Witness ==
    /\ r_pc = "returned"
    /\ datatype = "literal"
    /\ path_list = <<"hasIncome", "amount">>
    /\ citizen_graph = {<<Alice, SC("hasIncome"), AliceParent>>,
                         <<AliceParent, SC("amount"), Amount5000>>}
    /\ r_result = {AliceParent}

\* A first hop without a match gives the empty set.
C13_WitnessEmpty ==
    /\ r_pc = "returned"
    /\ datatype = "URI"
    /\ Len(path_list) = 2
    /\ citizen_graph # {}
    /\ Reach(citizen_graph, {root_uri}, SubSeq(path_list, 1, 1), TRUE) = {}
    /\ r_result = {}

(***************************************************************************)
(* Claims about the identity reported for a broken query, checked under    *)
(* SpecValidate.                                                           *)
(***************************************************************************)
StartsWith(str, pre) == Len(pre) <= Len(str) /\ SubSeq(str, 1, Len(pre)) = pre

\* The rows that failed to compile, in the order they were checked: the
\* k-th of them is reported by the k-th entry of collected_errors.
FailedRows == SelectSeq(v_checked, FailsToCompile)

ValidateDone == v_pc = "returned" /\ ~shacl_ttl_string.malformed

\* C14 (as stated): the text parsing, a syntactically broken query owned by
\* a blank node that a named shape N links to via sh:property makes the
\* result (false, SPARQL_SYNTAX, detail), detail containing the local name of
\* N, the query not being reported under Unknown_Shape.
C14_PropertyParentInDetail ==
    ValidateDone =>
        \A k \in DOMAIN FailedRows :
            LET row == FailedRows[k]
            IN  (row.sparql = QueryUnbalanced /\ row.constraintNode.kind = "BNode") =>
                    \A N \in SubjectsOf(v_graph, SH_property, row.constraintNode) :
                        /\ v_result[1] = FALSE
                        /\ v_result[2] = "SPARQL_SYNTAX"
                        /\ Contains(v_result[3], LocalName(N.value))
                        /\ ~StartsWith(collected_errors[k], Unknown_Shape)

\* C14 (amended): the text parsing, a syntactically broken query owned by a
\* blank node with a sh:property parent makes the result (false,
\* SPARQL_SYNTAX, detail) and is never reported under Unknown_Shape; when no
\* subject links to the blank node via sh:sparql, its entry in detail is
\* "<local name of a sh:property parent>_Prop: message", so detail contains
\* the local name of N when N is the only such parent; when some subject
\* links to it via sh:sparql, the entry carries the local name of such a
\* subject instead.
C14_PropertyParentUnlessSparql ==
    ValidateDone =>
        \A k \in DOMAIN FailedRows :
            LET row        == FailedRows[k]
                viaProperty == SubjectsOf(v_graph, SH_property, row.constraintNode)
                viaSparql   == SubjectsOf(v_graph, SH_sparql, row.constraintNode)
            IN  (/\ row.sparql = QueryUnbalanced
                 /\ row.constraintNode.kind = "BNode"
                 /\ viaProperty # {}) =>
                    /\ v_result[1] = FALSE
                    /\ v_result[2] = "SPARQL_SYNTAX"
                    /\ Contains(v_result[3], collected_errors[k])
                    /\ ~StartsWith(collected_errors[k], Unknown_Shape)
                    /\ \E N \in (IF viaSparql = {} THEN viaProperty ELSE viaSparql) :
                          /\ collected_errors[k] =
                                LocalName(N.value)
                                \o (IF viaSparql = {} THEN Prop_Suffix ELSE <<>>)
                                \o <<":", " ">> \o ExpectedMessage(row)
                          /\ Contains(v_result[3], LocalName(N.value))

C14_Witness ==
    /\ ValidateDone
    /\ v_graph = {<<ShapeB, SH_property, Blank1>>, <<Blank1, SH_select, QueryUnbalanced>>}
    /\ v_result = <<FALSE, "SPARQL_SYNTAX",
                    <<"B", "_", "P", "r", "o", "p", ":", " ",
                      "E", "x", "p", "e", "c", "t", "e", "d", " ", "'", "}", "'">> >>

(***************************************************************************)
(* Claims about the local name of a named node, checked under SpecName.    *)
(***************************************************************************)
\* The part of str after its last ch (all of str when it holds no ch).
AfterLast(str, ch) ==
    LET at == {i \in DOMAIN str : str[i] = ch}
    IN  IF at = {} THEN str
        ELSE SubSeq(str, (CHOOSE i \in at : \A j \in at : j <= i) + 1, Len(str))

NamesComputed == l_done = {"validate", "report"}

\* C15 (as stated): the identity of a named node, in both functions, is the
\* part of the IRI after its last '#' when the IRI holds a '#', and otherwise
\* the part after its last '/'; for every IRI text.
C15_AfterHashElseSlash ==
    NamesComputed =>
        LET local == IF "#" \in Range(l_iri) THEN AfterLast(l_iri, "#")
                     ELSE AfterLast(l_iri, "/")
        IN  l_validate = local /\ l_report = local

\* C15 (amended): the identity of a named node, in both functions, is the
\* part after the last '/' of the part of the IRI after its last '#' (the
\* whole IRI standing for that part when it holds no '#'); it is what the
\* claim says exactly when no '/' follows the last '#'.
C15_AfterSlashAfterHash ==
    NamesComputed =>
        /\ l_validate = AfterLast(AfterLast(l_iri, "#"), "/")
        /\ l_report = l_validate
        /\ "/" \notin Range(AfterLast(l_iri, "#")) =>
              l_validate = (IF "#" \in Range(l_iri) THEN AfterLast(l_iri, "#")
                            ELSE AfterLast(l_iri, "/"))

C15_Witness ==
    /\ NamesComputed
    /\ l_iri = <<"e", "#", "D", "/", "D">>
    /\ l_validate = <<"D">>
    /\ l_report = <<"D">>

(***************************************************************************)
(* Claims about with_retries, checked under SpecRetry and SpecRetryFair.   *)
(***************************************************************************)
\* A failure with an 'exhausted' error that is no 'overloaded' failure.
ExhaustedOnly(text) == Exhausted(text) /\ ~Overloaded(text)

LastFailures(n) == SubSeq(w_failures, Len(w_failures) - n + 1, Len(w_failures))

FiveExhaustedInARow ==
    /\ Len(w_failures) >= 5
    /\ \A k \in 1..5 : ExhaustedOnly(LastFailures(5)[k])

RaisedExhausted == w_pc = "raised" /\ w_raised.type = "GeminiExhaustedException"

\* C16: within one call, GeminiExhaustedException is raised only when func
\* has failed with an 'exhausted' error 5 times in a row, no 'overloaded'
\* failure between those 5; it is raised at the 5th such failure and never
\* after fewer.
C16_FiveConsecutive ==
    /\ RaisedExhausted => FiveExhaustedInARow
    /\ w_pc = "try" => ~FiveExhaustedInARow

\* What the code keeps: the exception is raised at the 5th 'exhausted'
\* failure of the call, counted over the whole call.
C16_FiveInTotal ==
    /\ RaisedExhausted =>
          /\ Len(SelectSeq(w_failures, ExhaustedOnly)) = 5
          /\ ExhaustedOnly(w_failures[Len(w_failures)])
    /\ w_pc = "try" => Len(SelectSeq(w_failures, ExhaustedOnly)) < 5

\* The retries with_retries allows.
RetryBounds ==
    /\ Len(SelectSeq(w_failures, ExhaustedOnly)) <= 5
    /\ w_pc \in {"try", "returned"} => Len(SelectSeq(w_failures, ExhaustedOnly)) <= 4
    /\ w_pc \in {"try", "returned"} =>
          \A k \in DOMAIN w_failures : Overloaded(w_failures[k]) \/ Exhausted(w_failures[k])
    /\ \A k \in 1..(Len(w_failures) - 1) :
          Overloaded(w_failures[k]) \/ Exhausted(w_failures[k])
    /\ w_pc = "raised" =>
          /\ ~Overloaded(w_failures[Len(w_failures)])
          /\ w_raised.type = "Exception" =>
                /\ ~Exhausted(w_failures[Len(w_failures)])
                /\ w_raised.text = w_failures[Len(w_failures)]

\* C17: a call eventually returns or raises when func is not overloaded for
\* ever: 'exhausted' failures allow at most 4 retries, a failure that is
\* neither 'overloaded' nor 'exhausted' is re-raised at once without a retry,
\* and only 'overloaded' failures are retried without a bound of the code's.
C17_Terminates == []RetryBounds /\ <>(w_pc \in {"returned", "raised"})

C17_Witness ==
    /\ w_pc = "returned"
    /\ Len(SelectSeq(w_failures, ExhaustedOnly)) = 4
    /\ Len(SelectSeq(w_failures, Overloaded)) = MaxOverloads
    /\ overloads = 1

====
